---------------------------- MODULE Spec2Model ----------------------------
(***************************************************************************)
(* A model of app.py, the Azure Services Explorer for Malaysia West: the   *)
(* catalog loader with its process-wide cache, the casual-intent detector, *)
(* the keyword classifier (search_services), the response synthesizer      *)
(* (generate_simple_response), the AI adapter (get_ai_response) and the    *)
(* /api/chat handler.                                                      *)
(*                                                                         *)
(* Python strings are TLA+ strings; TLC evaluates Len, \o, SubSeq, Head    *)
(* and Tail on them.  The source's non-ASCII characters are written as one *)
(* ASCII character each, none of which occurs elsewhere in the texts:      *)
(*     U+2705 (check mark)  "$"      U+274C (cross mark)    "#"            *)
(*     U+2022 (bullet)      "@"      U+1F44B (waving hand)  "&"            *)
(*     U+1F60A (smiling)    "%"      U+1F916 (robot)        "="            *)
(***************************************************************************)
EXTENDS Integers, Sequences, FiniteSets, TLC

VARIABLES
    services_cache,  \* the global _services_cache: None or the catalog
    endpoint,        \* AZURE_OPENAI_ENDPOINT in the process environment
    pc,              \* "idle", or "responded" once a handler has returned
    route,           \* the handler that returned
    question,        \* chat's local question
    services,        \* chat's local services
    fetched,         \* whether the request asked Azure for the listing
    azure_met,       \* what Azure answered when the request asked
    model_met,       \* what get_ai_response's try block met
    simple,          \* the run of generate_simple_response, if any
    answer,          \* what get_ai_response returned
    body,            \* what index, api_services, search or export_csv sent
    status           \* the HTTP status of the response

vars == <<services_cache, endpoint, pc, route, question, services, fetched,
          azure_met, model_met, simple, answer, body, status>>

(***************************************************************************)
(* Python values the model distinguishes from strings and lists.           *)
(***************************************************************************)
None == [t |-> "None", v |-> ""]
Str(s) == [t |-> "str", v |-> s]
List(s) == [t |-> "list", v |-> s]
IsNone(x) == x.t = "None"

(***************************************************************************)
(* str methods and operators used by the source.                           *)
(***************************************************************************)
LowerTable ==
    [A |-> "a", B |-> "b", C |-> "c", D |-> "d", E |-> "e", F |-> "f",
     G |-> "g", H |-> "h", I |-> "i", J |-> "j", K |-> "k", L |-> "l",
     M |-> "m", N |-> "n", O |-> "o", P |-> "p", Q |-> "q", R |-> "r",
     S |-> "s", T |-> "t", U |-> "u", V |-> "v", W |-> "w", X |-> "x",
     Y |-> "y", Z |-> "z"]

\* One character of str.lower().
LowerChar(c) == IF c \in DOMAIN LowerTable THEN LowerTable[c] ELSE c

RECURSIVE Lower(_)
\* str.lower(): character by character, the string halved at each step.
Lower(s) ==
    IF Len(s) <= 1 THEN LowerChar(s)
    ELSE Lower(SubSeq(s, 1, Len(s) \div 2))
         \o Lower(SubSeq(s, Len(s) \div 2 + 1, Len(s)))

\* Python's "p in s" on strings.
Contains(p, s) ==
    \E i \in 1..(Len(s) - Len(p) + 1) : SubSeq(s, i, i + Len(p) - 1) = p

\* The characters str.strip() and str.split() treat as whitespace.
Whitespace == {" ", "\n", "\t", "\r"}

RECURSIVE LStrip(_)
LStrip(s) == IF s # "" /\ Head(s) \in Whitespace THEN LStrip(Tail(s)) ELSE s

RECURSIVE RStrip(_)
RStrip(s) ==
    IF s # "" /\ SubSeq(s, Len(s), Len(s)) \in Whitespace
    THEN RStrip(SubSeq(s, 1, Len(s) - 1))
    ELSE s

\* str.strip()
Strip(s) == LStrip(RStrip(s))

RECURSIVE RemoveChar(_, _)
\* str.replace(c, '') for a one-character c, the string halved at each step.
RemoveChar(s, c) ==
    IF Len(s) <= 1 THEN (IF s = c THEN "" ELSE s)
    ELSE RemoveChar(SubSeq(s, 1, Len(s) \div 2), c)
         \o RemoveChar(SubSeq(s, Len(s) \div 2 + 1, Len(s)), c)

\* Whether the i-th character of s is whitespace.
IsSpaceAt(s, i) == SubSeq(s, i, i) \in Whitespace

\* The k-th smallest element of a set of integers.
Nth(S, k) == CHOOSE x \in S : Cardinality({y \in S : y < x}) = k - 1

\* str.split(): the maximal runs of non-whitespace characters, in order.
Split(s) ==
    LET starts == {i \in 1..Len(s) :
                     ~IsSpaceAt(s, i) /\ (i = 1 \/ IsSpaceAt(s, i - 1))}
        EndOf(i) == CHOOSE j \in i..Len(s) :
                       /\ \A k \in i..j : ~IsSpaceAt(s, k)
                       /\ (j = Len(s) \/ IsSpaceAt(s, j + 1))
    IN [k \in 1..Cardinality(starts) |->
          SubSeq(s, Nth(starts, k), EndOf(Nth(starts, k)))]

Digits == "0123456789"

RECURSIVE ToStr(_)
\* An int formatted by an f-string: decimal, no padding.
ToStr(n) ==
    IF n < 10 THEN SubSeq(Digits, n + 1, n + 1)
    ELSE ToStr(n \div 10) \o SubSeq(Digits, (n % 10) + 1, (n % 10) + 1)

RECURSIVE Join(_, _)
\* sep.join(parts)
Join(sep, parts) ==
    IF parts = <<>> THEN ""
    ELSE IF Len(parts) = 1 THEN parts[1]
    ELSE parts[1] \o sep \o Join(sep, Tail(parts))

\* seq[:n]
Take(seq, n) == SubSeq(seq, 1, IF Len(seq) < n THEN Len(seq) ELSE n)

(***************************************************************************)
(* The Azure side: what resource_client.providers.list() may answer.       *)
(* A listing is a sequence of providers, each with a namespace and its     *)
(* resource types (None or a sequence), each with the locations it can be  *)
(* deployed to.  The fetch may also raise (no login, no subscription).     *)
(***************************************************************************)
\* The most providers a listing holds, and the most resource types one
\* provider has in the region.
MaxProviders == 16
MaxTypes == 11

Region == "Malaysia West"

ProviderPool ==
    <<"Microsoft.Storage", "Microsoft.StorageSync",
      "Microsoft.CognitiveServices", "Microsoft.EventHub",
      "Microsoft.MachineLearningServices", "Microsoft.Compute",
      "Microsoft.ContainerService", "Microsoft.Web">>

\* The i-th namespace of the subscription.
Namespace(i) ==
    IF i <= Len(ProviderPool) THEN ProviderPool[i] ELSE "Contoso.Ns" \o ToStr(i)

TypePool == <<"accounts", "servers", "locations", "operations">>

\* The j-th resource type of a provider.
TypeName(j) == IF j <= Len(TypePool) THEN TypePool[j] ELSE "type" \o ToStr(j)

\* A provider with n resource types deployable in the region, each followed
\* in the listing by one that is not (locations None, or another region).
AzureProvider(i, n) ==
    [namespace |-> Namespace(i),
     resource_types |->
        IF n = 0 THEN None
        ELSE List([k \in 1..(2 * n) |->
                IF k % 2 = 1
                THEN [resource_type |-> TypeName((k + 1) \div 2),
                      locations |-> List(<<"East US", Region>>)]
                ELSE [resource_type |-> TypeName((k + 1) \div 2) \o "/logs",
                      locations |-> IF k % 4 = 0 THEN None
                                    ELSE List(<<"East US">>)]])]

\* np providers with nt types each.
Uniform(np, nt) == [i \in 1..np |-> AzureProvider(i, nt)]

\* np providers: the first with k types, the others with one each.
Skewed(np, k) == [i \in 1..np |-> AzureProvider(i, IF i = 1 THEN k ELSE 1)]

\* A listing that names one namespace twice, with other providers between.
Repeating ==
    <<AzureProvider(1, 2), AzureProvider(2, 1), AzureProvider(1, 1),
      AzureProvider(4, 1)>>

Listings ==
    {Uniform(0, 0), Uniform(3, 0), Repeating}
    \cup {Uniform(1, n) : n \in {1, 2, MaxTypes - 1, MaxTypes}}
    \cup {Uniform(p, 1) : p \in {2, 5, MaxProviders - 1, MaxProviders}}
    \cup {Uniform(5, 2), Uniform(5, 3)}
    \cup {Skewed(6, 6), Skewed(7, 5), Skewed(4, MaxTypes - 3)}

\* "x or []" on a value that is None or a sequence.
OrEmpty(x) == IF IsNone(x) THEN <<>> ELSE x.v

\* "region in locations" on a sequence.
InSeq(x, seq) == \E k \in 1..Len(seq) : seq[k] = x

RECURSIVE TypesInRegion(_, _, _, _)
\* The inner loop of get_deployable_resources_in_region: results after the
\* resource types k.. of one provider.
TypesInRegion(provider, k, region, results) ==
    LET types == OrEmpty(provider.resource_types) IN
    IF k > Len(types) THEN results
    ELSE LET resource_type == types[k]
             locations == OrEmpty(resource_type.locations)
         IN TypesInRegion(provider, k + 1, region,
                IF InSeq(region, locations)
                THEN Append(results,
                        [provider |-> provider.namespace,
                         resource_type |-> resource_type.resource_type,
                         display_name |-> provider.namespace \o "/"
                                          \o resource_type.resource_type,
                         is_available |-> "Yes"])
                ELSE results)

RECURSIVE ProvidersInRegion(_, _, _, _)
\* The outer loop: results after the providers i.. of the listing.
ProvidersInRegion(listing, i, region, results) ==
    IF i > Len(listing) THEN results
    ELSE ProvidersInRegion(listing, i + 1, region,
            TypesInRegion(listing[i], 1, region, results))

\* What Azure may answer to one fetch: a listing, or any exception
\* (credential, subscription, network).
AzureAnswers ==
    {[raises |-> FALSE, providers |-> l] : l \in Listings}
    \cup {[raises |-> TRUE, providers |-> <<>>]}

Unasked == [raises |-> FALSE, providers |-> <<>>]

\* get_deployable_resources_in_region(region), given what Azure answers;
\* an exception is printed and re-raised.
get_deployable_resources_in_region(region, azure) ==
    IF azure.raises THEN [raised |-> TRUE, value |-> <<>>]
    ELSE [raised |-> FALSE,
          value |-> ProvidersInRegion(azure.providers, 1, region, <<>>)]

(***************************************************************************)
(* search_services: the keyword classifier.                                *)
(***************************************************************************)
\* The dict service_mappings, as the (term, providers) pairs in the order
\* the dict literal inserts them, which is the order its items() iterate.
service_mappings ==
    << <<"sql", <<"microsoft.sql">> >>,
       <<"azure sql", <<"microsoft.sql">> >>,
       <<"sql server", <<"microsoft.sql">> >>,
       <<"sql database", <<"microsoft.sql">> >>,
       <<"postgres", <<"microsoft.dbforpostgresql">> >>,
       <<"postgresql", <<"microsoft.dbforpostgresql">> >>,
       <<"mysql", <<"microsoft.dbformysql">> >>,
       <<"maria", <<"microsoft.dbformariadb">> >>,
       <<"mariadb", <<"microsoft.dbformariadb">> >>,
       <<"cosmos", <<"microsoft.documentdb">> >>,
       <<"cosmosdb", <<"microsoft.documentdb">> >>,
       <<"redis", <<"microsoft.cache">> >>,
       <<"kubernetes", <<"microsoft.kubernetes", "microsoft.containerservice">> >>,
       <<"aks", <<"microsoft.containerservice">> >>,
       <<"container", <<"microsoft.containerinstance",
                        "microsoft.containerregistry",
                        "microsoft.containerservice">> >>,
       <<"vm", <<"microsoft.compute">> >>,
       <<"virtual machine", <<"microsoft.compute">> >>,
       <<"storage", <<"microsoft.storage">> >>,
       <<"blob", <<"microsoft.storage">> >>,
       <<"function", <<"microsoft.web">> >>,
       <<"functions", <<"microsoft.web">> >>,
       <<"app service", <<"microsoft.web">> >>,
       <<"logic app", <<"microsoft.logic">> >>,
       <<"key vault", <<"microsoft.keyvault">> >>,
       <<"keyvault", <<"microsoft.keyvault">> >>,
       <<"cognitive", <<"microsoft.cognitiveservices">> >>,
       <<"ai", <<"microsoft.cognitiveservices",
                 "microsoft.machinelearningservices">> >>,
       <<"machine learning", <<"microsoft.machinelearningservices">> >>,
       <<"event hub", <<"microsoft.eventhub">> >>,
       <<"eventhub", <<"microsoft.eventhub">> >>,
       <<"service bus", <<"microsoft.servicebus">> >>,
       <<"servicebus", <<"microsoft.servicebus">> >> >>

stop_words ==
    {"is", "are", "the", "a", "an", "in", "available", "does", "do", "can",
     "i", "use", "deploy", "what", "which", "how", "about", "tell", "me",
     "show", "get", "have", "malaysia", "west", "region", "azure", "service",
     "services"}

\* Lines 266-270, the loop over the catalog for one mapped term: the
\* services whose lowercased provider is in the term's providers, in
\* catalog order.
ProviderMatches(services_, providers) ==
    SelectSeq(services_, LAMBDA service : InSeq(Lower(service.provider), providers))

\* The terms, by position in service_mappings, that occur in the query.
OccurringTerms(query_lower) ==
    {t \in 1..Len(service_mappings) : Contains(service_mappings[t][1], query_lower)}

\* The least element of a non-empty set of integers.
Least(S) == CHOOSE x \in S : \A y \in S : x <= y

\* The mutant of MappedSearch for a loop that returns the first occurring
\* term's matches even when there are none.
MappedSearchNoFallThrough(query_lower, services_) ==
    LET occurring == OccurringTerms(query_lower) IN
    IF occurring = {} THEN [returned |-> FALSE, matches |-> <<>>]
    ELSE [returned |-> TRUE,
          matches |-> ProviderMatches(services_,
                        service_mappings[Least(occurring)][2])]

\* The mutant of MappedSearch for a loop that returns the matches of the
\* last occurring term that has some, not the first.
MappedSearchLast(query_lower, services_) ==
    LET returning == {t \in OccurringTerms(query_lower) :
                        ProviderMatches(services_, service_mappings[t][2]) # <<>>}
    IN IF returning = {} THEN [returned |-> FALSE, matches |-> <<>>]
       ELSE [returned |-> TRUE,
             matches |-> ProviderMatches(services_,
                            service_mappings[Least({0 - t : t \in returning}) * (0 - 1)][2])]

\* Lines 264-272, the loop over service_mappings.items(): it returns at the
\* first term, in the dict's order, that occurs in the query and has
\* matches; whether it returns, and what.
MappedSearch(query_lower, services_) ==
    LET returning == {t \in OccurringTerms(query_lower) :
                        ProviderMatches(services_, service_mappings[t][2]) # <<>>}
    IN IF returning = {} THEN [returned |-> FALSE, matches |-> <<>>]
       ELSE [returned |-> TRUE,
             matches |-> ProviderMatches(services_,
                            service_mappings[Least(returning)][2])]

\* [w for w in words if w not in stop_words and len(w) > 2]
RECURSIVE Keywords(_)
Keywords(words) ==
    IF words = <<>> THEN <<>>
    ELSE (IF Head(words) \notin stop_words /\ Len(Head(words)) > 2
          THEN <<Head(words)>> ELSE <<>>) \o Keywords(Tail(words))

\* query_lower.replace('?', '').replace(',', '').split(), then the filter.
ExtractKeywords(query_lower) ==
    Keywords(Split(RemoveChar(RemoveChar(query_lower, "?"), ",")))

\* The condition of the keyword loop's if.
KeywordHits(keyword, service) ==
    \/ Contains(keyword, Lower(service.display_name))
    \/ Contains(keyword, Lower(service.provider))
    \/ Contains(keyword, Lower(service.resource_type))

\* The mutant of KeywordLoop for a loop without its break.
RECURSIVE KeywordLoopNoBreak(_, _, _, _)
KeywordLoopNoBreak(service, keywords, k, matches) ==
    IF k > Len(keywords) THEN matches
    ELSE KeywordLoopNoBreak(service, keywords, k + 1,
            IF KeywordHits(keywords[k], service)
            THEN Append(matches, service) ELSE matches)

RECURSIVE KeywordLoop(_, _, _, _)
\* "for keyword in keywords" for one service, from the k-th keyword on: the
\* first keyword that hits appends the service and breaks.
KeywordLoop(service, keywords, k, matches) ==
    IF k > Len(keywords) THEN matches
    ELSE IF KeywordHits(keywords[k], service)
         THEN Append(matches, service)
         ELSE KeywordLoop(service, keywords, k + 1, matches)

RECURSIVE KeywordSearchFrom(_, _, _, _)
\* "for service in services" of the free-token search, from the i-th on.
KeywordSearchFrom(services_, keywords, i, matches) ==
    IF i > Len(services_) THEN matches
    ELSE KeywordSearchFrom(services_, keywords, i + 1,
            KeywordLoop(services_[i], keywords, 1, matches))

search_services(query, services_) ==
    LET query_lower == Lower(query)
        mapped == MappedSearch(query_lower, services_)
    IN IF mapped.returned THEN mapped.matches
       ELSE KeywordSearchFrom(services_, ExtractKeywords(query_lower), 1, <<>>)

(***************************************************************************)
(* is_casual_conversation: the casual-intent detector.                     *)
(***************************************************************************)
greetings ==
    <<"hi", "hello", "hey", "hi there", "hello there", "hey there",
      "good morning", "good afternoon", "good evening", "howdy",
      "greetings", "hiya", "yo", "sup", "what's up", "whats up">>

how_are_you ==
    <<"how are you", "how's it going", "how are you doing", "what's going on">>

thanks == <<"thank you", "thanks", "thx", "ty", "appreciate it", "cheers">>

help_phrases ==
    <<"help", "what can you do", "what do you do", "how does this work">>

GreetingReply ==
    "& Hello! I'm here to help you explore Azure services available in the Malaysia West region. You can ask me questions like:\n\n@ What services are available?\n@ Is Azure SQL available?\n@ Tell me about container services\n@ How many services are there?\n\nWhat would you like to know?"

HowAreYouReply ==
    "% I'm doing great, thanks for asking! I'm ready to help you explore Azure services in the Malaysia West region. What would you like to know about?"

ThanksReply ==
    "You're welcome! % Feel free to ask if you have more questions about Azure services in Malaysia West."

HelpReply ==
    "= I'm an Azure Services Explorer for the Malaysia West region. I can help you:\n\n@ Find out which Azure services are available in Malaysia West\n@ Search for specific services (e.g., 'storage', 'compute', 'AI')\n@ Get service counts and summaries\n@ Answer questions about Azure capabilities in this region\n\nJust type your question and I'll do my best to help!"

\* "for greeting in greetings: if question_lower == greeting or ..."
IsGreeting(question_lower) ==
    \E g \in 1..Len(greetings) :
        \/ question_lower = greetings[g]
        \/ question_lower = greetings[g] \o "!"
        \/ question_lower = greetings[g] \o "."

\* "for phrase in phrases: if phrase in question_lower"
AnyPhraseIn(phrases, question_lower) ==
    \E k \in 1..Len(phrases) : Contains(phrases[k], question_lower)

\* The (is_casual, response) tuple.
is_casual_conversation(question_) ==
    LET question_lower == Strip(Lower(question_)) IN
    IF IsGreeting(question_lower)
    THEN [is_casual |-> TRUE, response |-> GreetingReply]
    ELSE IF AnyPhraseIn(how_are_you, question_lower)
    THEN [is_casual |-> TRUE, response |-> HowAreYouReply]
    ELSE IF AnyPhraseIn(thanks, question_lower)
    THEN [is_casual |-> TRUE, response |-> ThanksReply]
    ELSE IF AnyPhraseIn(help_phrases, question_lower)
    THEN [is_casual |-> TRUE, response |-> HelpReply]
    ELSE [is_casual |-> FALSE, response |-> ""]

(***************************************************************************)
(* generate_simple_response: the response synthesizer.                     *)
(***************************************************************************)
\* The thresholds of the source.
ListAllProviders == 15
FullListingMax == 10
TruncatedProviders == 5
TruncatedTypes == 5

NotFoundReply ==
    "# No services matching your query were found in Malaysia West. Try searching for specific terms like 'container', 'sql', 'storage', 'compute', etc."

\* A Python dict is the sequence of its (key, value) pairs in insertion
\* order.  The position of key in d, or 0.
DictIndex(d, key) ==
    IF \E k \in 1..Len(d) : d[k][1] = key
    THEN CHOOSE k \in 1..Len(d) : d[k][1] = key
    ELSE 0

\* The distinct provider values: set(s["provider"] for s in services).
ProviderSet(services_) == {services_[i].provider : i \in 1..Len(services_)}

RECURSIVE CountByProvider(_, _, _)
\* Lines 353-358: providers[provider] += 1 over the services i.., a new
\* key entering at the end of the dict.
CountByProvider(services_, i, providers) ==
    IF i > Len(services_) THEN providers
    ELSE LET provider == services_[i].provider
             at == DictIndex(providers, provider)
         IN CountByProvider(services_, i + 1,
                IF at = 0 THEN Append(providers, <<provider, 1>>)
                ELSE [providers EXCEPT ![at] = <<provider, providers[at][2] + 1>>])

RECURSIVE GroupByProvider(_, _, _)
\* Lines 367-372: providers[provider].append(match["resource_type"]).
GroupByProvider(matches, i, providers) ==
    IF i > Len(matches) THEN providers
    ELSE LET provider == matches[i].provider
             at == DictIndex(providers, provider)
         IN GroupByProvider(matches, i + 1,
                IF at = 0
                THEN Append(providers, <<provider, <<matches[i].resource_type>> >>)
                ELSE [providers EXCEPT
                        ![at] = <<provider,
                                  Append(providers[at][2], matches[i].resource_type)>>])

\* The mutant of HowManyReply for a summary that counts a provider once
\* per record.
HowManyReplyNoSet(services_) ==
    "There are " \o ToStr(Len(services_))
    \o " Azure resource types available in Malaysia West from "
    \o ToStr(Len(services_)) \o " different providers."

\* Line 350.
HowManyReply(services_) ==
    "There are " \o ToStr(Len(services_))
    \o " Azure resource types available in Malaysia West from "
    \o ToStr(Cardinality(ProviderSet(services_))) \o " different providers."

\* Lines 353-360.
ListAllReply(services_) ==
    LET providers == CountByProvider(services_, 1, <<>>)
        shown == Take(providers, ListAllProviders)
        provider_summary ==
            [k \in 1..Len(shown) |->
                "@ " \o shown[k][1] \o ": " \o ToStr(shown[k][2])
                \o " resource types"]
    IN "There are " \o ToStr(Len(services_)) \o " resource types from "
       \o ToStr(Len(providers))
       \o " providers available in Malaysia West:\n\n"
       \o Join("\n", provider_summary) \o "\n\n...and more."

\* Line 377.
SingleReply(matches) ==
    "$ Yes! **" \o matches[1].display_name
    \o "** is available in Malaysia West."

RECURSIVE BulletLines(_)
\* Lines 382-383: one bullet line per resource type.
BulletLines(resource_types) ==
    IF resource_types = <<>> THEN ""
    ELSE "  @ " \o Head(resource_types) \o "\n" \o BulletLines(Tail(resource_types))

RECURSIVE FullSections(_)
\* Lines 380-383: a heading and its bullet lines per provider.
FullSections(providers) ==
    IF providers = <<>> THEN ""
    ELSE "**" \o providers[1][1] \o "**:\n" \o BulletLines(providers[1][2])
         \o FullSections(Tail(providers))

\* Lines 379-384.
FullReply(matches, providers) ==
    "$ Found " \o ToStr(Len(matches))
    \o " matching services in Malaysia West:\n\n" \o FullSections(providers)

RECURSIVE TruncatedLines(_)
\* Lines 387-391: one line per provider.
TruncatedLines(providers) ==
    IF providers = <<>> THEN ""
    ELSE LET provider == providers[1][1]
             resource_types == providers[1][2]
         IN "**" \o provider \o "**: "
            \o Join(", ", Take(resource_types, TruncatedTypes))
            \o (IF Len(resource_types) > TruncatedTypes
                THEN " (+" \o ToStr(Len(resource_types) - TruncatedTypes)
                     \o " more)"
                ELSE "")
            \o "\n" \o TruncatedLines(Tail(providers))

\* The mutant of TruncatedReply for a note that is also written when
\* exactly the listed providers matched.
TruncatedReplyEagerNote(matches, providers) ==
    "$ Found " \o ToStr(Len(matches))
    \o " matching resource types in Malaysia West:\n\n"
    \o TruncatedLines(Take(providers, TruncatedProviders))
    \o (IF Len(providers) >= TruncatedProviders
        THEN "\n...and " \o ToStr(Len(providers) - TruncatedProviders)
             \o " more providers."
        ELSE "")

\* Lines 386-394.
TruncatedReply(matches, providers) ==
    "$ Found " \o ToStr(Len(matches))
    \o " matching resource types in Malaysia West:\n\n"
    \o TruncatedLines(Take(providers, TruncatedProviders))
    \o (IF Len(providers) > TruncatedProviders
        THEN "\n...and " \o ToStr(Len(providers) - TruncatedProviders)
             \o " more providers."
        ELSE "")

\* The mutant of MatchesReply for a synthesizer whose full listing stops
\* one match early.
MatchesReplyOffByOne(matches) ==
    IF matches # <<>>
    THEN LET providers == GroupByProvider(matches, 1, <<>>) IN
         IF Len(matches) = 1 THEN SingleReply(matches)
         ELSE IF Len(matches) < FullListingMax THEN FullReply(matches, providers)
         ELSE TruncatedReply(matches, providers)
    ELSE NotFoundReply

\* The mutant of MatchesReply for a synthesizer that does not ask whether
\* there are matches at all.
MatchesReplyNoEmptyCheck(matches) ==
    LET providers == GroupByProvider(matches, 1, <<>>) IN
    IF Len(matches) = 1 THEN SingleReply(matches)
    ELSE IF Len(matches) <= FullListingMax THEN FullReply(matches, providers)
    ELSE TruncatedReply(matches, providers)

\* Lines 365-396: the reply for what search_services returned.
MatchesReply(matches) ==
    IF matches # <<>>
    THEN LET providers == GroupByProvider(matches, 1, <<>>) IN
         IF Len(matches) = 1 THEN SingleReply(matches)
         ELSE IF Len(matches) <= FullListingMax THEN FullReply(matches, providers)
         ELSE TruncatedReply(matches, providers)
    ELSE NotFoundReply

\* The mutant of SimpleRun for a synthesizer that looks for "how many"
\* before it asks the casual-intent detector.
SimpleRunHowManyFirst(question_, services_) ==
    LET question_lower == Lower(question_)
        casual == is_casual_conversation(question_)
    IN IF Contains("how many", question_lower)
       THEN [reply |-> HowManyReply(services_), branch |-> "how many",
             matches |-> None]
       ELSE IF casual.is_casual
       THEN [reply |-> casual.response, branch |-> "casual", matches |-> None]
       ELSE IF Contains("list all", question_lower)
               \/ Contains("show all", question_lower)
       THEN [reply |-> ListAllReply(services_), branch |-> "list all",
             matches |-> None]
       ELSE LET matches == search_services(question_, services_)
            IN [reply |-> MatchesReply(matches), branch |-> "search",
                matches |-> List(matches)]

\* One run of generate_simple_response: the string it returns, the branch
\* that returned it, and the value of its local matches, None when line 363
\* is not reached.
SimpleRun(question_, services_) ==
    LET question_lower == Lower(question_)
        casual == is_casual_conversation(question_)
    IN IF casual.is_casual
       THEN [reply |-> casual.response, branch |-> "casual", matches |-> None]
       ELSE IF Contains("how many", question_lower)
       THEN [reply |-> HowManyReply(services_), branch |-> "how many",
             matches |-> None]
       ELSE IF Contains("list all", question_lower)
               \/ Contains("show all", question_lower)
       THEN [reply |-> ListAllReply(services_), branch |-> "list all",
             matches |-> None]
       ELSE LET matches == search_services(question_, services_)
            IN [reply |-> MatchesReply(matches), branch |-> "search",
                matches |-> List(matches)]

generate_simple_response(question_, services_) ==
    SimpleRun(question_, services_).reply

(***************************************************************************)
(* get_malaysia_west_services: the loader and its process-wide cache.      *)
(***************************************************************************)
\* The loader with "if services is not None" at line 117 in place of
\* "if services": an empty catalog is cached too.
get_malaysia_west_services_CachesEmpty(cache, azure) ==
    IF ~IsNone(cache)
    THEN [value |-> cache.v, cache |-> cache, fetched |-> FALSE]
    ELSE LET got == get_deployable_resources_in_region(Region, azure) IN
         IF got.raised
         THEN [value |-> <<>>, cache |-> cache, fetched |-> TRUE]
         ELSE [value |-> got.value, cache |-> List(got.value), fetched |-> TRUE]

\* One call, given the cache and what Azure would answer: the value
\* returned, the cache afterwards, and whether Azure was asked.
get_malaysia_west_services(cache, azure) ==
    IF ~IsNone(cache)
    THEN [value |-> cache.v, cache |-> cache, fetched |-> FALSE]
    ELSE LET got == get_deployable_resources_in_region(Region, azure) IN
         IF got.raised
         THEN [value |-> <<>>, cache |-> cache, fetched |-> TRUE]
         ELSE IF got.value # <<>>
         THEN [value |-> got.value, cache |-> List(got.value), fetched |-> TRUE]
         ELSE [value |-> <<>>, cache |-> cache, fetched |-> TRUE]

(***************************************************************************)
(* get_ai_response: the Azure OpenAI adapter.                              *)
(***************************************************************************)
\* What AZURE_OPENAI_ENDPOINT may be in the process environment: unset,
\* empty, or a URL.
Endpoints == {None, Str(""), Str("https://myw.openai.azure.com/")}

\* What the try block may meet.  "raise": an exception from the import,
\* the credential, the client or the call (network, auth, HTTP error).
\* "no choices": a response whose choices list is empty.  "content": a
\* response whose first choice carries message.content, a string or None
\* (the SDK declares it Optional[str]).
ModelOutcomes ==
    {[kind |-> "raise", content |-> None],
     [kind |-> "no choices", content |-> None],
     [kind |-> "content", content |-> None],
     [kind |-> "content", content |-> Str("")],
     [kind |-> "content", content |-> Str("Azure Storage is available in Malaysia West.")]}

Uncalled == [kind |-> "uncalled", content |-> None]

NoRun == [reply |-> "", branch |-> "none", matches |-> None]

\* One call: the value returned (a Str or None), and the run of
\* generate_simple_response when it was called, else NoRun.
get_ai_response(question_, services_, endpoint_, model) ==
    LET fallback == SimpleRun(question_, services_) IN
    IF IsNone(endpoint_) \/ endpoint_.v = ""
    THEN [value |-> Str(fallback.reply), simple |-> fallback]
    ELSE IF model.kind = "content"
    THEN [value |-> model.content, simple |-> NoRun]
    ELSE [value |-> Str(fallback.reply), simple |-> fallback]

(***************************************************************************)
(* The Flask process: one request at a time.                               *)
(***************************************************************************)
Questions ==
    {"", "hi", "Hello!", " hey. ", "hi storage", "how are you",
     "Thanks, how many services?", "help list all", "helpful storage tips",
     "how many services", "How many? list all", "how many storage accounts",
     "list all", "Show All storage", "show all how many",
     "storage", "Is Azure SQL available?", "sql storage", "sql sync",
     "ai event hub", "event hub", "microsoft", "accounts",
     "microsoft accounts", "sync accounts", "servers, accounts?", "contoso",
     "how many resource types", "xyz", "is it", "kubernetes sync",
     "What about AI services?"}

\* The values of q that /api/search is sent.
Queries == {"", "Storage", "ACCOUNTS", "microsoft.storagesync/", "zzz"}

NoBody == [kind |-> "none"]

RECURSIVE GroupServices(_, _, _)
\* Lines 405-410 of index: grouped[provider].append(service) over the
\* services i.., a new key entering at the end of the dict.
GroupServices(services_, i, grouped) ==
    IF i > Len(services_) THEN grouped
    ELSE LET provider == services_[i].provider
             at == DictIndex(grouped, provider)
         IN GroupServices(services_, i + 1,
                IF at = 0 THEN Append(grouped, <<provider, <<services_[i]>> >>)
                ELSE [grouped EXCEPT
                        ![at] = <<provider, Append(grouped[at][2], services_[i])>>])

\* What index hands to render_template.
index_context(services_) ==
    LET grouped == GroupServices(services_, 1, <<>>) IN
    [kind |-> "index",
     services |-> services_,
     grouped_services |-> grouped,
     total_count |-> Len(services_),
     provider_count |-> Len(grouped)]

\* What api_services hands to jsonify.
api_services_json(services_) ==
    [kind |-> "api_services",
     region |-> "Malaysia West",
     total_services |-> Len(services_),
     services |-> services_]

\* What search hands to jsonify, query being q lowered.
search_json(query, services_) ==
    IF query = "" THEN [kind |-> "search", results |-> services_]
    ELSE LET Holds(s) == Contains(query, Lower(s.display_name))
             filtered == SelectSeq(services_, Holds)
         IN [kind |-> "search",
             query |-> query,
             count |-> Len(filtered),
             results |-> filtered]

\* One line of csv.DictWriter: the fields joined by commas (none of the
\* values holds a comma, a quote or a line break, so none is quoted) and
\* the writer's line terminator.
CsvRow(fields) == Join(",", fields) \o "\r\n"

\* The body of export_csv: the header and one row per service.
export_csv_text(services_) ==
    [kind |-> "export_csv",
     mimetype |-> "text/csv",
     text |-> CsvRow(<<"ProviderNamespace", "ResourceType", "IsAvailableInMYW">>)
              \o Join("", [i \in 1..Len(services_) |->
                      CsvRow(<<services_[i].provider,
                               services_[i].resource_type,
                               services_[i].is_available>>)])]

\* Azure answers only a process that asks: with the cache set no fetch is
\* made, and with no endpoint configured no model is called.
AzureFor(cache) == IF IsNone(cache) THEN AzureAnswers ELSE {Unasked}
ModelFor(endpoint_) ==
    IF IsNone(endpoint_) \/ endpoint_.v = "" THEN {Uncalled} ELSE ModelOutcomes

Init ==
    /\ services_cache = None
    /\ endpoint \in Endpoints
    /\ pc = "idle"
    /\ route = "none"
    /\ question = ""
    /\ services = <<>>
    /\ fetched = FALSE
    /\ azure_met = Unasked
    /\ model_met = Uncalled
    /\ simple = NoRun
    /\ answer = None
    /\ body = NoBody
    /\ status = 0

\* POST /api/chat with an empty question: the 400 reply, before anything
\* is loaded.
chat_rejected ==
    /\ pc = "idle"
    /\ pc' = "responded"
    /\ route' = "chat"
    /\ question' = ""
    /\ status' = 400
    /\ UNCHANGED <<services_cache, endpoint, services, fetched, azure_met,
                   model_met, simple, answer, body>>

\* POST /api/chat with a question: the whole handler.
chat ==
    /\ pc = "idle"
    /\ \E q \in Questions \ {""} :
       \E azure \in AzureFor(services_cache) :
       \E model \in ModelFor(endpoint) :
          LET loaded == get_malaysia_west_services(services_cache, azure)
          IN /\ question' = q
             /\ services_cache' = loaded.cache
             /\ services' = loaded.value
             /\ fetched' = loaded.fetched
             /\ azure_met' = azure
             /\ model_met' = model
             /\ LET response == get_ai_response(q, services', endpoint, model)
                IN /\ simple' = response.simple
                   /\ answer' = response.value
    /\ pc' = "responded"
    /\ route' = "chat"
    /\ status' = 200
    /\ UNCHANGED <<endpoint, body>>

\* GET /: the page with the catalog grouped by provider.
index ==
    /\ pc = "idle"
    /\ \E azure \in AzureFor(services_cache) :
          LET loaded == get_malaysia_west_services(services_cache, azure)
          IN /\ services_cache' = loaded.cache
             /\ services' = loaded.value
             /\ fetched' = loaded.fetched
             /\ azure_met' = azure
             /\ body' = index_context(services')
    /\ pc' = "responded"
    /\ route' = "index"
    /\ status' = 200
    /\ UNCHANGED <<endpoint, question, model_met, simple, answer>>

\* GET /api/services: the whole catalog.
api_services ==
    /\ pc = "idle"
    /\ \E azure \in AzureFor(services_cache) :
          LET loaded == get_malaysia_west_services(services_cache, azure)
          IN /\ services_cache' = loaded.cache
             /\ services' = loaded.value
             /\ fetched' = loaded.fetched
             /\ azure_met' = azure
             /\ body' = api_services_json(services')
    /\ pc' = "responded"
    /\ route' = "api_services"
    /\ status' = 200
    /\ UNCHANGED <<endpoint, question, model_met, simple, answer>>

\* GET /api/search?q=...: the records whose display name holds the query.
search ==
    /\ pc = "idle"
    /\ \E q \in Queries :
       \E azure \in AzureFor(services_cache) :
          LET loaded == get_malaysia_west_services(services_cache, azure)
          IN /\ services_cache' = loaded.cache
             /\ services' = loaded.value
             /\ fetched' = loaded.fetched
             /\ azure_met' = azure
             /\ body' = search_json(Lower(q), services')
    /\ pc' = "responded"
    /\ route' = "search"
    /\ status' = 200
    /\ UNCHANGED <<endpoint, question, model_met, simple, answer>>

\* GET /api/export/csv: the catalog as a CSV download.
export_csv ==
    /\ pc = "idle"
    /\ \E azure \in AzureFor(services_cache) :
          LET loaded == get_malaysia_west_services(services_cache, azure)
          IN /\ services_cache' = loaded.cache
             /\ services' = loaded.value
             /\ fetched' = loaded.fetched
             /\ azure_met' = azure
             /\ body' = export_csv_text(services')
    /\ pc' = "responded"
    /\ route' = "export_csv"
    /\ status' = 200
    /\ UNCHANGED <<endpoint, question, model_met, simple, answer>>

\* The response is sent and the request's locals are gone.
Return ==
    /\ pc = "responded"
    /\ pc' = "idle"
    /\ route' = "none"
    /\ question' = ""
    /\ services' = <<>>
    /\ fetched' = FALSE
    /\ azure_met' = Unasked
    /\ model_met' = Uncalled
    /\ simple' = NoRun
    /\ answer' = None
    /\ body' = NoBody
    /\ status' = 0
    /\ UNCHANGED <<services_cache, endpoint>>

Next ==
    \/ chat_rejected
    \/ chat
    \/ index
    \/ api_services
    \/ search
    \/ export_csv
    \/ Return

Spec == Init /\ [][Next]_vars

(***************************************************************************)
(* Reading a reply back: what the properties below use to say what a       *)
(* reply states.                                                           *)
(***************************************************************************)
StartsWith(s, prefix) ==
    Len(prefix) <= Len(s) /\ SubSeq(s, 1, Len(prefix)) = prefix

EndsWith(s, suffix) ==
    Len(suffix) <= Len(s)
    /\ SubSeq(s, Len(s) - Len(suffix) + 1, Len(s)) = suffix

\* The lines of a text: what lies between its newlines.
Lines(s) ==
    LET nl == {i \in 1..Len(s) : SubSeq(s, i, i) = "\n"}
        n == Cardinality(nl)
    IN [k \in 1..(n + 1) |->
          SubSeq(s, IF k = 1 THEN 1 ELSE Nth(nl, k - 1) + 1,
                    IF k = n + 1 THEN Len(s) ELSE Nth(nl, k) - 1)]

IsDigitAt(s, i) == \E d \in 1..10 : SubSeq(Digits, d, d) = SubSeq(s, i, i)

DigitValue(c) == CHOOSE d \in 0..9 : SubSeq(Digits, d + 1, d + 1) = c

RECURSIVE ParseInt(_)
\* The number a non-empty string of digits denotes.
ParseInt(s) ==
    IF Len(s) = 1 THEN DigitValue(s)
    ELSE 10 * ParseInt(SubSeq(s, 1, Len(s) - 1))
         + DigitValue(SubSeq(s, Len(s), Len(s)))

\* The numbers a text states: its maximal runs of digits, in order.
NumbersIn(s) ==
    LET starts == {i \in 1..Len(s) :
                     IsDigitAt(s, i) /\ (i = 1 \/ ~IsDigitAt(s, i - 1))}
        EndOf(i) == CHOOSE j \in i..Len(s) :
                       /\ \A k \in i..j : IsDigitAt(s, k)
                       /\ (j = Len(s) \/ ~IsDigitAt(s, j + 1))
    IN [k \in 1..Cardinality(starts) |->
          ParseInt(SubSeq(s, Nth(starts, k), EndOf(Nth(starts, k))))]

\* The positions of a catalog that hold the first record of their provider.
FirstOfProvider(catalog) ==
    {i \in 1..Len(catalog) :
        \A j \in 1..(i - 1) : catalog[j].provider # catalog[i].provider}

\* generate_simple_response has run in the request that was just answered.
Synthesized == pc = "responded" /\ simple.branch # "none"

\* The question, as the claims read it: casual when it is a greeting as a
\* whole, or holds a casual phrase anywhere.
QuestionLower == Lower(question)
HasHowMany == Contains("how many", QuestionLower)
HasListAll == Contains("list all", QuestionLower) \/ Contains("show all", QuestionLower)
HasMappedTerm ==
    \E t \in 1..Len(service_mappings) : Contains(service_mappings[t][1], QuestionLower)

CannedReply ==
    LET q == Strip(QuestionLower) IN
    IF \E g \in 1..Len(greetings) :
          q \in {greetings[g], greetings[g] \o "!", greetings[g] \o "."}
    THEN GreetingReply
    ELSE IF \E k \in 1..Len(how_are_you) : Contains(how_are_you[k], q)
    THEN HowAreYouReply
    ELSE IF \E k \in 1..Len(thanks) : Contains(thanks[k], q)
    THEN ThanksReply
    ELSE IF \E k \in 1..Len(help_phrases) : Contains(help_phrases[k], q)
    THEN HelpReply
    ELSE ""

IsCasual == CannedReply # ""

(***************************************************************************)
(* C1.  generate_simple_response applies its branches in a fixed priority: *)
(* a casual question gets exactly its canned reply, also when it contains  *)
(* "how many", "list all", "show all" or a mapped term; a non-casual       *)
(* question with "how many" gets the count summary, also when it contains  *)
(* "list all", "show all" or a mapped term; search_services is reached     *)
(* only when the question is not casual and has none of "how many",        *)
(* "list all", "show all".                                                 *)
(***************************************************************************)
C1_BranchPriority ==
    Synthesized =>
        /\ IsCasual => simple.reply = CannedReply /\ IsNone(simple.matches)
        /\ (~IsCasual /\ HasHowMany) =>
              /\ StartsWith(simple.reply, "There are ")
              /\ EndsWith(simple.reply, " different providers.")
              /\ IsNone(simple.matches)
        /\ ~IsNone(simple.matches) => ~IsCasual /\ ~HasHowMany /\ ~HasListAll

\* A casual question that also asks "how many" was answered.
C1_Witness ==
    /\ Synthesized
    /\ IsCasual /\ HasHowMany
    /\ simple.reply = ThanksReply

(***************************************************************************)
(* C2.  As claimed: for every question containing "how many" the reply     *)
(* states the number of records and the number of distinct providers.      *)
(***************************************************************************)
C2_AnyHowManyCounts ==
    (Synthesized /\ HasHowMany) =>
        NumbersIn(simple.reply)
            = <<Len(services), Cardinality(FirstOfProvider(services))>>

(***************************************************************************)
(* C2, amended.  For every question containing "how many" that the         *)
(* casual-intent detector does not claim, the reply states the number of   *)
(* records and the number of distinct providers.                           *)
(***************************************************************************)
C2_HowManyCounts ==
    (Synthesized /\ HasHowMany /\ ~IsCasual) =>
        NumbersIn(simple.reply)
            = <<Len(services), Cardinality(FirstOfProvider(services))>>

\* A count summary was given for a catalog with several records per provider.
C2_Witness ==
    /\ Synthesized /\ HasHowMany /\ ~IsCasual
    /\ Cardinality(FirstOfProvider(services)) > 1
    /\ Len(services) > Cardinality(FirstOfProvider(services))
    /\ NumbersIn(simple.reply)
         = <<Len(services), Cardinality(FirstOfProvider(services))>>

(***************************************************************************)
(* C3.  As claimed: a non-casual question without "how many" that holds    *)
(* "list all" or "show all" gets one line per provider with its record     *)
(* count, in the order the catalog first names the providers, for the      *)
(* first 15 providers only; and the reply ends with "...and more." if and  *)
(* only if the catalog has more than 15 distinct providers.                *)
(***************************************************************************)
ListAllAnswered == Synthesized /\ ~IsCasual /\ ~HasHowMany /\ HasListAll

\* Whether line is the breakdown's line for a provider with count records.
IsBreakdownLine(line, provider, count) ==
    LET prefix == "@ " \o provider \o ": "
        suffix == " resource types"
    IN /\ StartsWith(line, prefix)
       /\ EndsWith(line, suffix)
       /\ Len(line) > Len(prefix) + Len(suffix)
       /\ NumbersIn(SubSeq(line, Len(prefix) + 1, Len(line) - Len(suffix)))
            = <<count>>

\* The breakdown lists the first 15 providers, in first-seen order, each
\* with the number of its records.
BreakdownLinesRight ==
    LET firsts == FirstOfProvider(services)
        shown == IF Cardinality(firsts) < 15 THEN Cardinality(firsts) ELSE 15
        listed == SelectSeq(Lines(simple.reply), LAMBDA l : StartsWith(l, "@ "))
    IN /\ Len(listed) = shown
       /\ \A k \in 1..shown :
             LET provider == services[Nth(firsts, k)].provider IN
             IsBreakdownLine(listed[k], provider,
                Cardinality({i \in 1..Len(services) :
                                services[i].provider = provider}))

C3_ListAllBreakdown ==
    ListAllAnswered =>
        /\ BreakdownLinesRight
        /\ EndsWith(simple.reply, "...and more.")
             <=> Cardinality(FirstOfProvider(services)) > 15

(***************************************************************************)
(* C4.  When search_services is reached, the number n of records it        *)
(* returns alone chooses the form of the reply: none, the fixed "not       *)
(* found" message; one, the sentence naming its display_name; 2 to 10, the *)
(* full listing, each matched resource type on a line of its own under its *)
(* provider's heading; 11 or more, the truncated listing.                  *)
(***************************************************************************)
Searched == Synthesized /\ ~IsNone(simple.matches)

\* In a full listing, the i-th match has a bullet line under the heading
\* of its provider: no other heading comes between.
ItemizedUnderHeading(lines, match) ==
    \E h \in 1..Len(lines) : \E b \in (h + 1)..Len(lines) :
        /\ lines[h] = "**" \o match.provider \o "**:"
        /\ lines[b] = "  @ " \o match.resource_type
        /\ \A x \in (h + 1)..(b - 1) : ~StartsWith(lines[x], "**")

C4_ReplyFormByCount ==
    Searched =>
        LET matches == simple.matches.v
            n == Len(matches)
            lines == Lines(simple.reply)
            bullets == SelectSeq(lines, LAMBDA l : StartsWith(l, "  @ "))
        IN /\ n = 0 => simple.reply = NotFoundReply
           /\ n = 1 =>
                simple.reply = "$ Yes! **" \o matches[1].display_name
                               \o "** is available in Malaysia West."
           /\ (2 <= n /\ n <= 10) =>
                /\ StartsWith(lines[1], "$ Found ")
                /\ EndsWith(lines[1], " matching services in Malaysia West:")
                /\ NumbersIn(lines[1]) = <<n>>
                /\ Len(bullets) = n
                /\ \A i \in 1..n : ItemizedUnderHeading(lines, matches[i])
           /\ n >= 11 =>
                /\ StartsWith(lines[1], "$ Found ")
                /\ EndsWith(lines[1], " matching resource types in Malaysia West:")
                /\ NumbersIn(lines[1]) = <<n>>
                /\ Len(bullets) = 0

\* Exactly ten matches were itemized in full.
C4_Witness ==
    /\ Searched
    /\ Len(simple.matches.v) = 10
    /\ Len(SelectSeq(Lines(simple.reply), LAMBDA l : StartsWith(l, "  @ "))) = 10

(***************************************************************************)
(* What the claims about search_services speak of.                         *)
(***************************************************************************)
\* The mapped terms, by position, that occur in the question.
TermsInQuestion ==
    {t \in 1..Len(service_mappings) : Contains(service_mappings[t][1], QuestionLower)}

\* The catalog positions whose lowercased provider is a namespace of term t.
NamespaceHits(t) ==
    {i \in 1..Len(services) :
        \E k \in 1..Len(service_mappings[t][2]) :
            Lower(services[i].provider) = service_mappings[t][2][k]}

\* The records at a set of catalog positions, in catalog order.
RecordsAt(positions) ==
    [k \in 1..Cardinality(positions) |-> services[Nth(positions, k)]]

\* Free-token matching alone: '?' and ',' stripped, split on whitespace,
\* stop words and tokens shorter than 3 characters dropped, a record kept
\* when some keyword is inside one of its three lowercased fields.
FreeTokenWords == Split(RemoveChar(RemoveChar(QuestionLower, "?"), ","))

FreeTokenKeywords ==
    {FreeTokenWords[i] : i \in {j \in 1..Len(FreeTokenWords) :
                                  /\ FreeTokenWords[j] \notin stop_words
                                  /\ Len(FreeTokenWords[j]) >= 3}}

FreeTokenHits ==
    {i \in 1..Len(services) :
        \E w \in FreeTokenKeywords :
            \/ Contains(w, Lower(services[i].display_name))
            \/ Contains(w, Lower(services[i].provider))
            \/ Contains(w, Lower(services[i].resource_type))}

(***************************************************************************)
(* C5.  As claimed: whenever the question holds a mapped term whose        *)
(* namespaces have no record in the catalog, search_services returns what  *)
(* free-token matching alone returns.                                      *)
(***************************************************************************)
C5_AnyEmptyTermFallsThrough ==
    (Searched /\ \E t \in TermsInQuestion : NamespaceHits(t) = {}) =>
        simple.matches.v = RecordsAt(FreeTokenHits)

(***************************************************************************)
(* C5, amended.  Whenever the question holds a mapped term and no mapped   *)
(* term it holds has a record of its namespaces in the catalog,            *)
(* search_services returns what free-token matching alone returns.         *)
(***************************************************************************)
C5_EmptyTermsFallThrough ==
    (/\ Searched
     /\ TermsInQuestion # {}
     /\ \A t \in TermsInQuestion : NamespaceHits(t) = {}) =>
        simple.matches.v = RecordsAt(FreeTokenHits)

\* A question with a mapped term that is absent from the catalog was
\* answered from a free-token match.
C5_Witness ==
    /\ Searched
    /\ TermsInQuestion # {}
    /\ \A t \in TermsInQuestion : NamespaceHits(t) = {}
    /\ simple.matches.v # <<>>
    /\ simple.matches.v = RecordsAt(FreeTokenHits)

(***************************************************************************)
(* C6.  First match wins, nothing is merged: when the first mapped term,   *)
(* in the table's order, that occurs in the question has a record in the   *)
(* catalog, search_services returns exactly the records whose lowercased   *)
(* provider is one of that term's namespaces.                              *)
(***************************************************************************)
C6_FirstTermWins ==
    (/\ Searched
     /\ TermsInQuestion # {}
     /\ NamespaceHits(Least(TermsInQuestion)) # {}) =>
        simple.matches.v = RecordsAt(NamespaceHits(Least(TermsInQuestion)))

\* Two mapped terms with records occurred, and free-token matching would
\* have added records: only the first term's records were returned.
C6_Witness ==
    /\ Searched
    /\ \E t \in TermsInQuestion :
          /\ t # Least(TermsInQuestion)
          /\ NamespaceHits(t) # {}
          /\ NamespaceHits(t) \cap NamespaceHits(Least(TermsInQuestion)) = {}
    /\ NamespaceHits(Least(TermsInQuestion)) # {}
    /\ ~(FreeTokenHits \subseteq NamespaceHits(Least(TermsInQuestion)))
    /\ simple.matches.v = RecordsAt(NamespaceHits(Least(TermsInQuestion)))

(***************************************************************************)
(* C7.  As claimed: get_ai_response always returns a string; it returns    *)
(* exactly generate_simple_response(question, services) when no endpoint   *)
(* is configured, when the try block raises, and when the model's response *)
(* is malformed (no choice, or a first choice without content); and it     *)
(* returns the model's text only after a successful call.                  *)
(***************************************************************************)
ChatAnswered == pc = "responded" /\ route = "chat" /\ status = 200

ModelGaveText == model_met.kind = "content" /\ ~IsNone(model_met.content)

C7_AlwaysAStringWithFallback ==
    ChatAnswered =>
        /\ answer.t = "str"
        /\ ~ModelGaveText =>
              answer = Str(generate_simple_response(question, services))
        /\ ModelGaveText => answer = model_met.content

(***************************************************************************)
(* C8.  With an empty catalog every branch of generate_simple_response     *)
(* returns its message: search_services returns the empty sequence and the *)
(* reply is the fixed "not found" message; "how many" states 0 and 0;      *)
(* "list all" and "show all" state 0 and 0 and list no provider.           *)
(***************************************************************************)
C8_EmptyCatalog ==
    (Synthesized /\ services = <<>>) =>
        /\ ~IsNone(simple.matches) =>
              simple.matches.v = <<>> /\ simple.reply = NotFoundReply
        /\ (~IsCasual /\ HasHowMany) => NumbersIn(simple.reply) = <<0, 0>>
        /\ (~IsCasual /\ ~HasHowMany /\ HasListAll) =>
              /\ NumbersIn(Lines(simple.reply)[1]) = <<0, 0>>
              /\ \A k \in 1..Len(Lines(simple.reply)) :
                    ~StartsWith(Lines(simple.reply)[k], "@ ")
        /\ (~IsCasual /\ ~HasHowMany /\ ~HasListAll) =>
              ~IsNone(simple.matches) /\ simple.reply = NotFoundReply

\* A question with a mapped term was answered "not found" from an empty
\* catalog.
C8_Witness ==
    /\ Synthesized /\ services = <<>>
    /\ HasMappedTerm
    /\ ~IsNone(simple.matches)
    /\ simple.reply = NotFoundReply

(***************************************************************************)
(* C9.  What search_services returns is the catalog with some positions    *)
(* left out: the records are in catalog order, no position is taken twice, *)
(* and every duplicate of a returned record is returned too.               *)
(***************************************************************************)
C9_CatalogSubsequence ==
    Searched =>
        LET matches == simple.matches.v IN
        matches = SelectSeq(services,
                    LAMBDA r : \E i \in 1..Len(matches) : matches[i] = r)

\* Free-token matching ran on a catalog that holds a matching record
\* twice, with other records between the copies; two keywords hit one
\* record; and a record of the catalog was left out.
C9_Witness ==
    /\ Searched
    /\ TermsInQuestion = {}
    /\ \E i \in FreeTokenHits : \E j \in FreeTokenHits :
          j >= i + 2 /\ services[i] = services[j]
    /\ \E i \in 1..Len(services) :
          \E v \in FreeTokenKeywords : \E w \in FreeTokenKeywords :
             /\ v # w
             /\ Contains(v, Lower(services[i].display_name))
             /\ Contains(w, Lower(services[i].display_name))
    /\ Len(simple.matches.v) >= 2
    /\ Len(simple.matches.v) < Len(services)

(***************************************************************************)
(* C10.  The reply for more than 10 matches groups them by provider in     *)
(* first-seen order and lists the first 5 providers only, each with its    *)
(* first min(k, 5) resource types in match order, k being the number of    *)
(* its matches, followed by "(+N more)" with N = k - 5 exactly when k > 5; *)
(* the note "...and M more providers." is there exactly when more than 5   *)
(* providers matched, with M the number of providers less 5.               *)
(***************************************************************************)
\* The matches of the provider of the match at position f, in match order.
TypesOf(matches, f) ==
    LET mine == SelectSeq(matches, LAMBDA r : r.provider = matches[f].provider)
    IN [k \in 1..Len(mine) |-> mine[k].resource_type]

\* The line the claim describes for the provider first seen at position f.
ClaimedLine(matches, f) ==
    LET types == TypesOf(matches, f)
        k == Len(types)
    IN "**" \o matches[f].provider \o "**: "
       \o Join(", ", SubSeq(types, 1, IF k < 5 THEN k ELSE 5))
       \o (IF k > 5 THEN " (+" \o ToStr(k - 5) \o " more)" ELSE "")

C10_TruncatedListing ==
    (Searched /\ Len(simple.matches.v) > 10) =>
        LET matches == simple.matches.v
            firsts == FirstOfProvider(matches)
            P == Cardinality(firsts)
            listed == IF P < 5 THEN P ELSE 5
            lines == Lines(simple.reply)
        IN SubSeq(lines, 3, Len(lines))
             = [k \in 1..listed |-> ClaimedLine(matches, Nth(firsts, k))]
               \o (IF P > 5
                   THEN <<"", "...and " \o ToStr(P - 5) \o " more providers.">>
                   ELSE <<"">>)

\* More than 5 providers matched, one of them with more than 5 records.
C10_Witness ==
    /\ Searched /\ Len(simple.matches.v) > 10
    /\ Cardinality(FirstOfProvider(simple.matches.v)) > 5
    /\ \E f \in FirstOfProvider(simple.matches.v) :
          Len(TypesOf(simple.matches.v, f)) > 5
    /\ \E k \in 1..Len(Lines(simple.reply)) :
          EndsWith(Lines(simple.reply)[k], " (+1 more)")
    /\ EndsWith(simple.reply, "\n...and 1 more providers.")

(***************************************************************************)
(* C11.  Over any sequence of calls of get_malaysia_west_services the      *)
(* process-wide cache is write-once.  It changes only in a call that finds *)
(* it unset and whose fetch returns a non-empty catalog, and it becomes    *)
(* that catalog.  A call that finds it set returns the cached catalog,     *)
(* makes no fetch and leaves it as it is.  A call that finds it unset      *)
(* fetches; when the fetch raises or returns an empty catalog the call     *)
(* returns the empty list and the cache stays unset.  Nothing a handler    *)
(* does besides that call (the chat with its synthesis, the search, the    *)
(* export, the page, sending the reply) changes the cache.                 *)
(***************************************************************************)
\* The step is a request whose handler calls get_malaysia_west_services.
CallsLoader == pc = "idle" /\ pc' = "responded" /\ status' = 200

\* The listing holds a resource type that names the region.
HasDeployable(listing) ==
    \E i \in 1..Len(listing) :
        /\ ~IsNone(listing[i].resource_types)
        /\ \E k \in 1..Len(listing[i].resource_types.v) :
              LET locations == listing[i].resource_types.v[k].locations
              IN ~IsNone(locations) /\ InSeq(Region, locations.v)

\* The fetch of the step raised or returned an empty catalog.
FetchFailedOrEmpty == azure_met'.raises \/ ~HasDeployable(azure_met'.providers)

\* What one step may do to the cache, and what a call returns.
WriteOnceStep ==
    /\ services_cache' # services_cache =>
          /\ CallsLoader
          /\ IsNone(services_cache)
          /\ fetched'
          /\ ~FetchFailedOrEmpty
          /\ services_cache' = List(services')
    /\ ~IsNone(services_cache) => services_cache' = services_cache
    /\ (CallsLoader /\ ~IsNone(services_cache)) =>
          /\ services' = services_cache.v
          /\ ~fetched'
    /\ (CallsLoader /\ IsNone(services_cache)) =>
          /\ fetched'
          /\ FetchFailedOrEmpty =>
                /\ services' = <<>>
                /\ IsNone(services_cache')
          /\ ~FetchFailedOrEmpty =>
                /\ services' # <<>>
                /\ services' =
                     get_deployable_resources_in_region(
                         Region, azure_met').value
                /\ services_cache' = List(services')
    /\ ~CallsLoader => services_cache' = services_cache

C11_WriteOnceCache == [][WriteOnceStep]_vars

\* A chat answered by the synthesizer from the cached catalog: the call
\* made no fetch and returned what an earlier request had cached.
C11_Witness ==
    /\ ChatAnswered
    /\ Synthesized
    /\ ~IsNone(services_cache)
    /\ ~fetched
    /\ services = services_cache.v
    /\ services # <<>>

=============================================================================
